---- MODULE Spec2Model ----
(***************************************************************************)
(* Pixel scoring / masking (spateo/preprocessing/segmentation/icell.py)    *)
(* and SpaGCN clustering (spateo/tools/cluster/find_clusters.py) as a      *)
(* state machine.  One behaviour is one call of _score_pixels,             *)
(* score_and_mask_pixels or spagcn_pyg, advanced statement by statement.   *)
(*                                                                         *)
(* Images are one-dimensional arrays of NPix pixels.  A real number in     *)
(* [0, 1] is held in fixed point as an integer v in 0..Scale standing for  *)
(* v / Scale; NaN is the float that 0/0 produces.  Strings are sequences   *)
(* of one-character strings so that str.lower() and the `in` substring     *)
(* test are computed, not assumed.  An Optional value is <<>> for None     *)
(* and <<v>> for the value v.                                              *)
(***************************************************************************)
EXTENDS Integers, Sequences, FiniteSets, TLC

\* ------------------------------------------------------------- bounds
NPix == 3
Scale == 2
MaxSeed == 1

\* ------------------------------------------------------------ strings
LowerChar(c) ==
  CASE c = "E" -> "e" [] c = "M" -> "m" [] c = "B" -> "b" [] c = "P" -> "p"
    [] c = "V" -> "v" [] c = "I" -> "i" [] c = "G" -> "g" [] c = "A" -> "a"
    [] c = "U" -> "u" [] c = "S" -> "s" [] c = "O" -> "o" [] c = "R" -> "r"
    [] c = "N" -> "n" [] c = "T" -> "t"
    [] OTHER -> c

lower(s) == [i \in 1..Len(s) |-> LowerChar(s[i])]

\* Python's `sub in s` for strings
Contains(sub, s) ==
  \E i \in 0..(Len(s) - Len(sub)) : SubSeq(s, i + 1, i + Len(sub)) = sub

s_gauss == <<"g","a","u","s","s">>
s_moran == <<"m","o","r","a","n">>
s_em == <<"e","m">>
s_vi == <<"v","i">>
s_bp == <<"b","p">>
s_em_gauss == <<"e","m","+","g","a","u","s","s">>
s_em_bp == <<"e","m","+","b","p">>
s_vi_gauss == <<"v","i","+","g","a","u","s","s">>
s_vi_bp == <<"v","i","+","b","p">>

\* the tuple with a name too many
ValidMethods_extra ==
  {s_gauss, s_moran, s_em, s_em_gauss, s_em_bp, s_vi_gauss, s_vi_bp,
   <<"e","m","+","v","i">>}

\* the tuple tested at the head of _score_pixels
ValidMethods ==
  {s_gauss, s_moran, s_em, s_em_gauss, s_em_bp, s_vi_gauss, s_vi_bp}

\* the method names as the docstring spells them
DocumentedMethods ==
  {s_gauss, s_moran, <<"E","M">>, <<"E","M","+","g","a","u","s","s">>,
   <<"E","M","+","B","P">>, <<"V","I","+","g","a","u","s","s">>,
   <<"V","I","+","B","P">>}

\* method arguments tried: the documented spellings, other letter cases,
\* and names that are not methods
MethodInputs ==
  DocumentedMethods
    \cup {<<"G","a","u","s","s">>, <<"e","m","+","B","p">>}
    \cup {<<"o","t","s","u">>, <<"e","m","+","v","i">>}

\* ------------------------------------------------------------- values
None == << >>
Some(v) == << v >>
IsNone(o) == o = << >>
Val(o) == o[1]

NaN == -1
Levels == 0..Scale
Pix == 1..NPix
Arrays(S) == [Pix -> S]

\* the images a library step may return, up to the order of the pixels:
\* every multiset of values of S, laid out in non-decreasing order
Images(S) == {A \in Arrays(S) : \A i \in 1..(NPix - 1) : A[i] <= A[i + 1]}

Max(a, b) == IF a >= b THEN a ELSE b
Min(a, b) == IF a <= b THEN a ELSE b
ArrMax(A) == CHOOSE m \in {A[i] : i \in DOMAIN A} : \A j \in DOMAIN A : A[j] <= m
ArrMin(A) == CHOOSE m \in {A[i] : i \in DOMAIN A} : \A j \in DOMAIN A : m <= A[j]
HasNaN(A) == \E i \in DOMAIN A : A[i] = NaN

\* ------------------------------------------------- library arithmetic
RECURSIVE SumIf(_, _, _, _)
\* sum of A[i], i <= n, over the pixels whose value lies in lo..hi
SumIf(A, n, lo, hi) ==
  IF n = 0 THEN 0
  ELSE SumIf(A, n - 1, lo, hi) + (IF lo <= A[n] /\ A[n] <= hi THEN A[n] ELSE 0)

CountIf(A, lo, hi) == Cardinality({i \in DOMAIN A : lo <= A[i] /\ A[i] <= hi})

Distinct(A) == {A[i] : i \in DOMAIN A}

\* between-class variance of the split {<= t} / {> t}, as a fraction Num/Den
OtsuNum(A, t) ==
  LET w0 == CountIf(A, 0, t)
      w1 == CountIf(A, t + 1, Scale)
      s0 == SumIf(A, Len(A), 0, t)
      s1 == SumIf(A, Len(A), t + 1, Scale)
  IN  (s0 * w1 - s1 * w0) * (s0 * w1 - s1 * w0)

OtsuDen(A, t) == CountIf(A, 0, t) * CountIf(A, t + 1, Scale)

\* skimage.filters.threshold_otsu: None stands for the ValueError raised on
\* an image holding NaN; a constant image gives its value; otherwise the
\* first level that maximises the between-class variance
threshold_otsu(A) ==
  IF HasNaN(A) THEN None
  ELSE IF ArrMin(A) = ArrMax(A) THEN Some(A[1])
  ELSE LET C == ArrMin(A)..(ArrMax(A) - 1)
       IN  Some(CHOOSE t \in C :
                  /\ \A u \in C : OtsuNum(A, t) * OtsuDen(A, u) >= OtsuNum(A, u) * OtsuDen(A, t)
                  /\ \A u \in C : u < t =>
                        OtsuNum(A, t) * OtsuDen(A, u) > OtsuNum(A, u) * OtsuDen(A, t))

RECURSIVE Fact(_)
Fact(n) == IF n <= 1 THEN 1 ELSE n * Fact(n - 1)

\* w * m^2 of the class lo..hi, scaled by Len(A)! to stay in the integers
ClassTerm(A, lo, hi) ==
  LET w == CountIf(A, lo, hi)
      s == SumIf(A, Len(A), lo, hi)
  IN  IF w = 0 THEN 0 ELSE (s * s * Fact(Len(A))) \div w

MultiOtsuScore(A, t) ==
  ClassTerm(A, 0, t[1]) + ClassTerm(A, t[1] + 1, t[2]) + ClassTerm(A, t[2] + 1, Scale)

\* skimage.filters.threshold_multiotsu(image) with its default classes=3:
\* None stands for the ValueError raised when the image has fewer than
\* three distinct values (or holds NaN); otherwise the first pair of levels
\* <<t1, t2>> that maximises the between-class variance
threshold_multiotsu(A) ==
  IF HasNaN(A) \/ Cardinality(Distinct(A)) < 3 THEN None
  ELSE LET C == {t \in (ArrMin(A)..(ArrMax(A) - 1)) \X (ArrMin(A)..(ArrMax(A) - 1)) :
                   t[1] < t[2]}
           Before(u, t) == u[1] < t[1] \/ (u[1] = t[1] /\ u[2] < t[2])
       IN  Some(CHOOSE t \in C :
                  /\ \A u \in C : MultiOtsuScore(A, t) >= MultiOtsuScore(A, u)
                  /\ \A u \in C : Before(u, t) =>
                        MultiOtsuScore(A, t) > MultiOtsuScore(A, u))

\* res /= res.max() on a float array: 0/0 is NaN
DivideByMax(A) ==
  LET m == ArrMax(A)
  IN  [i \in DOMAIN A |-> IF m = 0 THEN NaN ELSE (A[i] * Scale) \div m]

\* np.clip(res + certain_mask, 0, 1): True adds 1.0
ClipAdd(A, mask) ==
  [i \in DOMAIN A |-> Max(0, Min(Scale, A[i] + (IF mask[i] THEN Scale ELSE 0)))]

\* X >= threshold, elementwise; a comparison with NaN is False
AtLeast(A, t) == [i \in DOMAIN A |-> A[i] /= NaN /\ A[i] >= t]

\* mask += certain_mask on boolean arrays is elementwise or
OrMask(m, c) == [i \in DOMAIN m |-> m[i] \/ c[i]]

\* ---------------------------------------------------------------- state
VARIABLES
  pc,              \* the statement the running call has reached
  entry,           \* the function that was called
  method,          \* the `method` argument / local
  Xsparse,         \* issparse(X) on entry of _score_pixels
  certain_mask,    \* Optional boolean array
  bins,            \* Optional array of bin labels
  threshold,       \* Optional score cutoff (argument, then local)
  res,             \* the local `res` of _score_pixels
  background_cond, \* conditionals handed to belief propagation
  cell_cond,
  em_results,      \* TRUE once the local em_results is bound
  vi_results,      \* TRUE once the local vi_results is bound
  scores,          \* Optional: the array _score_pixels returned
  mask,            \* Optional: the local `mask` of score_and_mask_pixels
  mk,              \* the local `mk` (0 while unset)
  cutoff,          \* Optional: the local `threshold` once lines 320-322 ran
  layers,          \* adata.layers: certain, bins, scores, mask (Optional each)
  calls,           \* the sub-steps called so far, in order
  error,           \* name of the exception that ended the call, "" if none
  sg,              \* the arguments of spagcn_pyg
  adj,             \* Optional: the local adjacency matrix
  l,               \* Optional: the value search_l returned
  resolution,      \* Optional: the value search_res returned (local `res`)
  seeds,           \* the locals r_seed, t_seed, n_seed (Optional each)
  rng,             \* the generators of random, torch and numpy
  clf,             \* the SpaGCN model: "none", "created", "l_set", "trained"
  y_pred,          \* Optional: the predicted labels
  uns,             \* adata.uns["adj_spagcn"] (Optional)
  obs              \* adata.obs: spagcn_pred, spagcn_pred_refined (Optional each)

\* what the icell functions leave alone
sgVars == <<sg, adj, l, resolution, seeds, rng, clf, y_pred, uns, obs>>

\* what spagcn_pyg leaves alone
icellData ==
  <<entry, method, Xsparse, certain_mask, bins, threshold, res,
    background_cond, cell_cond, em_results, vi_results, scores, mask, mk,
    cutoff, layers>>

\* kernel size k passed by the caller
KernelSize == 3

\* mk when neither EM nor VI is run
DefaultMk == 3

\* the 1e-2 written into the conditionals of certain pixels, in hundredths
CondUnit == 100
CertainEps == 1
\* conditional probability arrays the estimators may return, in hundredths
CondChoices ==
  {[i \in Pix |-> CondUnit \div 5], [i \in Pix |-> CondUnit - CondUnit \div 5],
   [i \in Pix |-> IF i % 2 = 1 THEN CondUnit \div 5 ELSE CondUnit - CondUnit \div 5]}

\* boolean masks tried as certain_mask
MaskChoices ==
  {[i \in Pix |-> FALSE], [i \in Pix |-> i = 1],
   [i \in Pix |-> i % 2 = 0], [i \in Pix |-> TRUE]}

\* integer layers tried as the certain layer (cast to bool by the code)
CertainLayerChoices ==
  {[i \in Pix |-> 0], [i \in Pix |-> IF i = 1 THEN 2 ELSE 0],
   [i \in Pix |-> IF i % 2 = 0 THEN 1 ELSE 0], [i \in Pix |-> 1]}

\* bin labels tried as bins: one bin, or pixel 1 outside every bin
BinsChoices == {[i \in Pix |-> 1], [i \in Pix |-> IF i = 1 THEN 0 ELSE 1]}

\* an array whose shape differs from X's
WrongShape(v) == [i \in 1..(NPix - 1) |-> v]

\* ndarray.astype(bool)
astype_bool(A) == [i \in DOMAIN A |-> A[i] /= 0]

Shape(A) == Len(A)

Called(fn, b) == Append(calls, [fn |-> fn, bins |-> b])

Raise(exc) == /\ pc' = "error" /\ error' = exc

NoLayers == [certain |-> None, bins |-> None, scores |-> None, mask |-> None]

icellInit ==
  /\ pc = "idle" /\ entry = "" /\ method = << >> /\ Xsparse = FALSE
  /\ certain_mask = None /\ bins = None /\ threshold = None /\ res = None
  /\ background_cond = None /\ cell_cond = None
  /\ em_results = FALSE /\ vi_results = FALSE
  /\ scores = None /\ mask = None /\ mk = 0 /\ cutoff = None
  /\ layers = NoLayers /\ calls = << >> /\ error = ""

\* ------------------------------------------------------ _score_pixels
\* a direct call _score_pixels(X, k, method, certain_mask=..., bins=...)
Call_score_pixels ==
  /\ pc = "idle"
  /\ \E m \in MethodInputs, sp \in BOOLEAN,
        c \in {None} \cup {Some(x) : x \in MaskChoices} \cup {Some(WrongShape(TRUE))},
        b \in {None} \cup {Some(x) : x \in BinsChoices} \cup {Some(WrongShape(1))} :
        /\ method' = m /\ Xsparse' = sp /\ certain_mask' = c /\ bins' = b
  /\ entry' = "_score_pixels"
  /\ pc' = "sp_validate"
  /\ UNCHANGED sgVars
  /\ UNCHANGED <<threshold, res, background_cond, cell_cond, em_results,
                 vi_results, scores, mask, mk, cutoff, layers, calls, error>>

\* lines 183-203: the three argument tests, then method = method.lower()
Validate ==
  /\ pc = "sp_validate"
  /\ IF lower(method) \notin ValidMethods
       THEN Raise("PreprocessingError") /\ UNCHANGED method
     ELSE IF ~IsNone(certain_mask) /\ NPix /= Shape(Val(certain_mask))
       THEN Raise("PreprocessingError") /\ UNCHANGED method
     ELSE IF ~IsNone(bins) /\ NPix /= Shape(Val(bins))
       THEN Raise("PreprocessingError") /\ UNCHANGED method
     ELSE /\ method' = lower(method)
          /\ pc' = "sp_conv"
          /\ UNCHANGED error
  /\ UNCHANGED sgVars
  /\ UNCHANGED <<entry, Xsparse, certain_mask, bins, threshold, res,
                 background_cond, cell_cond, em_results, vi_results, scores,
                 mask, mk, cutoff, layers, calls>>

\* lines 205-212: densify X, then the first 2D convolution
Conv ==
  /\ pc = "sp_conv"
  /\ Xsparse' = FALSE
  /\ \E r \in Images(Levels) : res' = Some(r)
  /\ calls' = Called(IF method \in {s_gauss, s_moran} THEN "conv2d:gauss"
                     ELSE "conv2d:circle", ~IsNone(bins))
  /\ pc' = "sp_dispatch"
  /\ UNCHANGED sgVars
  /\ UNCHANGED <<entry, method, certain_mask, bins, threshold,
                 background_cond, cell_cond, em_results, vi_results, scores,
                 mask, mk, cutoff, layers, error>>

\* lines 215-218: method == "gauss"
Gauss ==
  /\ pc = "sp_dispatch" /\ method = s_gauss
  /\ \E r \in Images(Levels) : res' = Some(r)
  /\ calls' = Called("scale_to_01", FALSE)
  /\ pc' = "sp_return"
  /\ UNCHANGED sgVars
  /\ UNCHANGED <<entry, method, Xsparse, certain_mask, bins, threshold,
                 background_cond, cell_cond, em_results, vi_results, scores,
                 mask, mk, cutoff, layers, error>>

\* lines 219-222: method == "moran"
Moran ==
  /\ pc = "sp_dispatch" /\ method /= s_gauss /\ method = s_moran
  /\ \E r \in Images(Levels) : res' = Some(DivideByMax(r))
  /\ calls' = Called("run_moran", ~IsNone(bins))
  /\ pc' = "sp_return"
  /\ UNCHANGED sgVars
  /\ UNCHANGED <<entry, method, Xsparse, certain_mask, bins, threshold,
                 background_cond, cell_cond, em_results, vi_results, scores,
                 mask, mk, cutoff, layers, error>>

\* lines 224-231: EM when "em" in method, VI otherwise
Estimate ==
  /\ pc = "sp_dispatch" /\ method /= s_gauss /\ method /= s_moran
  /\ IF Contains(s_em, method)
       THEN /\ em_results' = TRUE /\ UNCHANGED vi_results
            /\ calls' = Called("run_em", ~IsNone(bins))
       ELSE /\ vi_results' = TRUE /\ UNCHANGED em_results
            /\ calls' = Called("run_vi", ~IsNone(bins))
  /\ pc' = IF Contains(s_bp, method) THEN "sp_cond" ELSE "sp_conf"
  /\ UNCHANGED sgVars
  /\ UNCHANGED <<entry, method, Xsparse, certain_mask, bins, threshold, res,
                 background_cond, cell_cond, scores, mask, mk, cutoff, layers, error>>

\* cond[certain_mask] = v
SetWhere(A, m, v) == [i \in DOMAIN A |-> IF m[i] THEN v ELSE A[i]]

\* lines 234-238: the conditionals, overridden on the certain pixels
Conditionals ==
  /\ pc = "sp_cond"
  /\ \E bc \in CondChoices, cc \in CondChoices :
        IF IsNone(certain_mask)
          THEN background_cond' = Some(bc) /\ cell_cond' = Some(cc)
          ELSE /\ background_cond' = Some(SetWhere(bc, Val(certain_mask), CertainEps))
               /\ cell_cond' = Some(SetWhere(cc, Val(certain_mask), CondUnit - CertainEps))
  /\ calls' = Called(IF Contains(s_em, method) THEN "em.conditionals"
                     ELSE "vi.conditionals", ~IsNone(bins))
  /\ pc' = "sp_bp"
  /\ UNCHANGED sgVars
  /\ UNCHANGED <<entry, method, Xsparse, certain_mask, bins, threshold, res,
                 em_results, vi_results, scores, mask, mk, cutoff, layers, error>>

\* lines 239-240: belief propagation over the conditionals
RunBP ==
  /\ pc = "sp_bp"
  /\ \E r \in Images(Levels) : res' = Some(r)
  /\ background_cond' = None /\ cell_cond' = None
  /\ calls' = Called("run_bp", FALSE)
  /\ pc' = IF Contains(s_gauss, method) THEN "sp_blur" ELSE "sp_return"
  /\ UNCHANGED sgVars
  /\ UNCHANGED <<entry, method, Xsparse, certain_mask, bins, threshold,
                 em_results, vi_results, scores, mask, mk, cutoff, layers, error>>

\* lines 241-245: em.confidence reads the local em_results
Confidence ==
  /\ pc = "sp_conf"
  /\ IF ~em_results
       THEN /\ Raise("NameError")
            /\ UNCHANGED <<res, calls>>
       ELSE /\ \E r \in Images(Levels) :
                  res' = Some(IF IsNone(certain_mask) THEN r
                              ELSE ClipAdd(r, Val(certain_mask)))
            /\ calls' = Called("em.confidence", ~IsNone(bins))
            /\ pc' = IF Contains(s_gauss, method) THEN "sp_blur" ELSE "sp_return"
            /\ UNCHANGED error
  /\ UNCHANGED sgVars
  /\ UNCHANGED <<entry, method, Xsparse, certain_mask, bins, threshold,
                 background_cond, cell_cond, em_results, vi_results, scores,
                 mask, mk, cutoff, layers>>

\* lines 247-249: the final Gaussian blur, a weighted mean of its input
Blur ==
  /\ pc = "sp_blur"
  /\ \E r \in Images(ArrMin(Val(res))..ArrMax(Val(res))) : res' = Some(r)
  /\ calls' = Called("conv2d:gauss", ~IsNone(bins))
  /\ pc' = "sp_return"
  /\ UNCHANGED sgVars
  /\ UNCHANGED <<entry, method, Xsparse, certain_mask, bins, threshold,
                 background_cond, cell_cond, em_results, vi_results, scores,
                 mask, mk, cutoff, layers, error>>

\* line 251: return res
Return ==
  /\ pc = "sp_return"
  /\ scores' = res
  /\ res' = None /\ em_results' = FALSE /\ vi_results' = FALSE
  /\ pc' = IF entry = "_score_pixels" THEN "done" ELSE "sm_write_scores"
  /\ UNCHANGED sgVars
  /\ UNCHANGED <<entry, method, Xsparse, certain_mask, bins, threshold,
                 background_cond, cell_cond, mask, mk, cutoff, layers, calls, error>>

\* ----------------------------------------------- score_and_mask_pixels
\* apply_threshold(scores, mk, threshold): X >= threshold followed by a
\* morphological close and open, which leaves a constant mask alone and may
\* otherwise remove every small object or fill every small hole
apply_threshold(A, k, t) ==
  LET base == AtLeast(A, t)
      allF == [i \in DOMAIN A |-> FALSE]
      allT == [i \in DOMAIN A |-> TRUE]
  IN  {base} \cup (IF base \in {allF, allT} THEN {} ELSE {allF, allT})

\* a call score_and_mask_pixels(adata, layer, k, method, threshold=...,
\* bins_layer=..., certain_layer=...) on an adata whose layers may hold a
\* certain layer and a bins layer; a bins layer that is present but unused
\* stands for bins_layer=False
Call_score_and_mask_pixels ==
  /\ pc = "idle"
  /\ \E m \in MethodInputs,
        t \in {None} \cup {Some(x) : x \in Levels},
        c \in {None} \cup {Some(x) : x \in CertainLayerChoices},
        b \in {None} \cup {Some(x) : x \in BinsChoices} :
        /\ method' = m /\ threshold' = t
        /\ layers' = [NoLayers EXCEPT !.certain = c, !.bins = b]
  /\ entry' = "score_and_mask_pixels"
  /\ pc' = "sm_select"
  /\ UNCHANGED sgVars
  /\ UNCHANGED <<Xsparse, certain_mask, bins, res, background_cond, cell_cond,
                 em_results, vi_results, scores, mask, mk, cutoff, calls, error>>

\* lines 305-316: select X, the certain mask and the bins; lower the method;
\* call _score_pixels
SelectLayers ==
  /\ pc = "sm_select"
  /\ certain_mask' = IF IsNone(layers.certain) THEN None
                     ELSE Some(astype_bool(Val(layers.certain)))
  /\ \E use \in BOOLEAN :
        bins' = IF use /\ ~IsNone(layers.bins) THEN layers.bins ELSE None
  /\ method' = lower(method)
  /\ calls' = Called("select_layer_data", FALSE)
  /\ pc' = "sp_validate"
  /\ UNCHANGED sgVars
  /\ UNCHANGED <<entry, Xsparse, threshold, res, background_cond, cell_cond,
                 em_results, vi_results, scores, mask, mk, cutoff, layers, error>>

\* the scores layer left unwritten
WriteScores_skipped ==
  /\ pc = "sm_write_scores"
  /\ pc' = "sm_threshold"
  /\ UNCHANGED sgVars
  /\ UNCHANGED <<entry, method, Xsparse, certain_mask, bins, threshold, res,
                 background_cond, cell_cond, em_results, vi_results, scores,
                 mask, mk, cutoff, layers, calls, error>>

\* lines 317-318: SKM.set_layer_data(adata, scores_layer, scores)
WriteScores ==
  /\ pc = "sm_write_scores"
  /\ layers' = [layers EXCEPT !.scores = scores]
  /\ calls' = Called("set_layer_data:scores", FALSE)
  /\ pc' = "sm_threshold"
  /\ UNCHANGED sgVars
  /\ UNCHANGED <<entry, method, Xsparse, certain_mask, bins, threshold, res,
                 background_cond, cell_cond, em_results, vi_results, scores,
                 mask, mk, cutoff, error>>

\* lines 320-322: `if not threshold` holds for None and for 0
Threshold ==
  /\ pc = "sm_threshold"
  /\ IF IsNone(threshold) \/ threshold = Some(0)
       THEN LET found == IF Contains(s_bp, method)
                           THEN (IF IsNone(threshold_multiotsu(Val(scores))) THEN None
                                 ELSE Some(Val(threshold_multiotsu(Val(scores)))[2]))
                           ELSE threshold_otsu(Val(scores))
            IN  /\ calls' = Called(IF Contains(s_bp, method) THEN "threshold_multiotsu"
                                   ELSE "threshold_otsu", FALSE)
                /\ IF IsNone(found)
                     THEN Raise("ValueError") /\ UNCHANGED cutoff
                     ELSE cutoff' = found /\ pc' = "sm_apply" /\ UNCHANGED error
       ELSE /\ cutoff' = threshold
            /\ pc' = "sm_apply"
            /\ UNCHANGED <<calls, error>>
  /\ UNCHANGED sgVars
  /\ UNCHANGED <<entry, method, Xsparse, certain_mask, bins, threshold, res,
                 background_cond, cell_cond, em_results, vi_results, scores,
                 mask, mk, layers>>

\* lines 324-326: mk defaults to k + 2 after EM or VI, to 3 otherwise
ApplyThreshold ==
  /\ pc = "sm_apply"
  /\ mk' = IF Contains(s_em, method) \/ Contains(s_vi, method)
             THEN KernelSize + 2 ELSE DefaultMk
  /\ \E m \in apply_threshold(Val(scores), mk', Val(cutoff)) : mask' = Some(m)
  /\ calls' = Called("apply_threshold", FALSE)
  /\ pc' = "sm_store"
  /\ UNCHANGED sgVars
  /\ UNCHANGED <<entry, method, Xsparse, certain_mask, bins, threshold, res,
                 background_cond, cell_cond, em_results, vi_results, scores,
                 cutoff, layers, error>>

\* the mask without the certain pixels added
AddCertain_dropped(m) == m

\* lines 327-328: if certain_layer: mask += certain_mask
AddCertain(m) ==
  IF IsNone(layers.certain) THEN m ELSE OrMask(m, Val(certain_mask))

\* lines 327-330: add the certain pixels, store the mask layer
StoreMask ==
  /\ pc = "sm_store"
  /\ mask' = Some(AddCertain(Val(mask)))
  /\ layers' = [layers EXCEPT !.mask = mask']
  /\ calls' = Called("set_layer_data:mask", FALSE)
  /\ pc' = "done"
  /\ UNCHANGED sgVars
  /\ UNCHANGED <<entry, method, Xsparse, certain_mask, bins, threshold, res,
                 background_cond, cell_cond, em_results, vi_results, scores,
                 mk, cutoff, error>>

\* ---------------------------------------------------------- spagcn_pyg
\* a generator seeded with s that has produced no number yet
Seeded(s) == [seed |-> Some(s), used |-> FALSE]
\* the same generator once numbers were drawn from it
Used(g) == [g EXCEPT !.used = TRUE]
\* the generator of a fresh process
Unseeded == [seed |-> None, used |-> FALSE]

sgInit ==
  /\ sg = [his_img_path |-> None, total_umi |-> None, refine_shape |-> None,
           obs_coords |-> FALSE, copy |-> FALSE, seed |-> 0]
  /\ adj = None /\ l = None /\ resolution = None
  /\ seeds = [r_seed |-> None, t_seed |-> None, n_seed |-> None]
  /\ rng = [random |-> Unseeded, torch |-> Unseeded, numpy |-> Unseeded]
  /\ clf = "none" /\ y_pred = None /\ uns = None
  /\ obs = [spagcn_pred |-> None, spagcn_pred_refined |-> None]

\* a call spagcn_pyg(adata, n_clusters, ...)
Call_spagcn_pyg ==
  /\ pc = "idle"
  /\ \E img \in {None, Some("his.png")}, umi \in {None, Some("total_umi")},
        shape \in {None, Some("hexagon"), Some("square")},
        oc \in BOOLEAN, cp \in BOOLEAN, sd \in 0..MaxSeed :
        sg' = [his_img_path |-> img, total_umi |-> umi, refine_shape |-> shape,
               obs_coords |-> oc, copy |-> cp, seed |-> sd]
  /\ entry' = "spagcn_pyg"
  /\ pc' = "sg_coords"
  /\ UNCHANGED <<method, Xsparse, certain_mask, bins, threshold, res,
                 background_cond, cell_cond, em_results, vi_results, scores,
                 mask, mk, cutoff, layers>>
  /\ UNCHANGED <<adj, l, resolution, seeds, rng, clf, y_pred, uns, obs>>
  /\ UNCHANGED <<calls, error>>

\* lines 58-79: the spot coordinates, from adata.obsm or from adata.obs
Coords ==
  /\ pc = "sg_coords"
  /\ calls' = Called(IF sg.obs_coords THEN "coords:obs" ELSE "coords:obsm", FALSE)
  /\ pc' = "sg_adj"
  /\ UNCHANGED <<icellData, sgVars, error>>

\* lines 81-113: the adjacency matrix, stored in adata.uns["adj_spagcn"]
Adjacency ==
  /\ pc = "sg_adj"
  /\ adj' = IF IsNone(sg.his_img_path)
              THEN (IF IsNone(sg.total_umi) THEN Some("adj:xy") ELSE Some("adj:umi"))
              ELSE Some("adj:histology")
  /\ uns' = adj'
  /\ calls' = Called("calculate_adj_matrix", FALSE)
  /\ pc' = "sg_search_l"
  /\ UNCHANGED <<icellData, sg, l, resolution, seeds, rng, clf, y_pred, obs, error>>

\* line 115: search_l gives l, or None when no l reaches p
SearchL ==
  /\ pc = "sg_search_l"
  /\ \E found \in {None, Some(1)} : l' = found
  /\ calls' = Called("search_l", FALSE)
  /\ pc' = "sg_search_res"
  /\ UNCHANGED <<icellData, sg, adj, resolution, seeds, rng, clf, y_pred, uns, obs, error>>

\* lines 117-134: the seed locals, then search_res, which seeds the three
\* generators itself and trains trial models with them
SearchRes ==
  /\ pc = "sg_search_res"
  /\ seeds' = [r_seed |-> Some(sg.seed), t_seed |-> Some(sg.seed), n_seed |-> Some(sg.seed)]
  /\ calls' = Called("search_res", FALSE)
  /\ IF IsNone(l)
       THEN Raise("TypeError") /\ UNCHANGED <<resolution, rng>>
       ELSE /\ \E r \in 1..2 : resolution' = Some(r)
            /\ rng' = [random |-> Used(Seeded(sg.seed)), torch |-> Used(Seeded(sg.seed)),
                       numpy |-> Used(Seeded(sg.seed))]
            /\ pc' = "sg_model"
            /\ UNCHANGED error
  /\ UNCHANGED <<icellData, sg, adj, l, clf, y_pred, uns, obs>>

\* lines 136-137: clf = SpaGCN(); clf.set_l(l)
CreateModel ==
  /\ pc = "sg_model"
  /\ clf' = "l_set"
  /\ calls' = Called("SpaGCN", FALSE)
  /\ pc' = "sg_seed"
  /\ UNCHANGED <<icellData, sg, adj, l, resolution, seeds, rng, y_pred, uns, obs, error>>

\* the seeding without np.random.seed
SeedAll_partial ==
  [random |-> Seeded(Val(seeds.r_seed)), torch |-> Seeded(Val(seeds.t_seed)),
   numpy |-> rng.numpy]

\* lines 139-142: random.seed, torch.manual_seed, np.random.seed
SeedAll ==
  [random |-> Seeded(Val(seeds.r_seed)), torch |-> Seeded(Val(seeds.t_seed)),
   numpy |-> Seeded(Val(seeds.n_seed))]

SetSeeds ==
  /\ pc = "sg_seed"
  /\ rng' = SeedAll
  /\ calls' = Called("seed", FALSE)
  /\ pc' = "sg_train"
  /\ UNCHANGED <<icellData, sg, adj, l, resolution, seeds, clf, y_pred, uns, obs, error>>

\* lines 144-154: clf.train(adata, adj, ..., res=res, ...)
Train ==
  /\ pc = "sg_train"
  /\ clf' = "trained"
  /\ rng' = [random |-> Used(rng.random), torch |-> Used(rng.torch),
             numpy |-> Used(rng.numpy)]
  /\ calls' = Called("train", FALSE)
  /\ pc' = "sg_predict"
  /\ UNCHANGED <<icellData, sg, adj, l, resolution, seeds, y_pred, uns, obs, error>>

\* line 155: y_pred, prob = clf.predict()
Predict ==
  /\ pc = "sg_predict"
  /\ \E y \in [1..2 -> 0..1] : y_pred' = Some(y)
  /\ calls' = Called("predict", FALSE)
  /\ pc' = "sg_assign"
  /\ UNCHANGED <<icellData, sg, adj, l, resolution, seeds, rng, clf, uns, obs, error>>

\* str(i) of a cluster label
LabelStr(i) == IF i = 0 THEN "0" ELSE "1"

\* lines 156-158: adata.obs["spagcn_pred"], as a list of strings
AssignLabels ==
  /\ pc = "sg_assign"
  /\ obs' = [obs EXCEPT !.spagcn_pred =
                Some([i \in DOMAIN Val(y_pred) |-> LabelStr(Val(y_pred)[i])])]
  /\ calls' = Called("assign", FALSE)
  /\ pc' = IF IsNone(sg.refine_shape) THEN "sg_return" ELSE "sg_refine"
  /\ UNCHANGED <<icellData, sg, adj, l, resolution, seeds, rng, clf, y_pred, uns, error>>

\* lines 160-170: the optional refinement: a second, coordinates-only
\* adjacency matrix and refine() over the labels already assigned
Refine ==
  /\ pc = "sg_refine"
  /\ \E r \in {Val(obs.spagcn_pred),
               [i \in DOMAIN Val(obs.spagcn_pred) |-> Val(obs.spagcn_pred)[1]]} :
        obs' = [obs EXCEPT !.spagcn_pred_refined = Some(r)]
  /\ calls' = Called("refine", FALSE)
  /\ pc' = "sg_return"
  /\ UNCHANGED <<icellData, sg, adj, l, resolution, seeds, rng, clf, y_pred, uns, error>>

\* lines 172-174: return adata if copy else None
ReturnClusters ==
  /\ pc = "sg_return"
  /\ calls' = Called(IF sg.copy THEN "return:adata" ELSE "return:None", FALSE)
  /\ pc' = "done"
  /\ UNCHANGED <<icellData, sgVars, error>>

\* ------------------------------------------------------- specification
vars ==
  <<pc, entry, method, Xsparse, certain_mask, bins, threshold, res,
    background_cond, cell_cond, em_results, vi_results, scores, mask, mk,
    cutoff, layers, calls, error, sg, adj, l, resolution, seeds, rng, clf,
    y_pred, uns, obs>>

Init == icellInit /\ sgInit

Next ==
  \/ Call_score_pixels \/ Validate \/ Conv \/ Gauss \/ Moran \/ Estimate
  \/ Conditionals \/ RunBP \/ Confidence \/ Blur \/ Return
  \/ Call_score_and_mask_pixels \/ SelectLayers \/ WriteScores \/ Threshold
  \/ ApplyThreshold \/ StoreMask
  \/ Call_spagcn_pyg \/ Coords \/ Adjacency \/ SearchL \/ SearchRes
  \/ CreateModel \/ SetSeeds \/ Train \/ Predict \/ AssignLabels \/ Refine
  \/ ReturnClusters

Spec == Init /\ [][Next]_vars

\* ---------------------------------------------------------- properties
InIcell == entry \in {"_score_pixels", "score_and_mask_pixels"}

\* the seven method names of the docstring, lower-cased
SevenNames == {lower(m) : m \in DocumentedMethods}

\* the sub-steps of _score_pixels
ScoringSteps ==
  {"conv2d:gauss", "conv2d:circle", "scale_to_01", "run_moran", "run_em",
   "run_vi", "em.conditionals", "vi.conditionals", "run_bp", "em.confidence"}

WellShaped ==
  /\ IsNone(certain_mask) \/ Shape(Val(certain_mask)) = NPix
  /\ IsNone(bins) \/ Shape(Val(bins)) = NPix

\* C1: a call of _score_pixels with one of the seven documented methods (in
\* any letter case) and well-shaped certain_mask and bins never ends in an
\* error state.
C1_ValidMethodsComplete ==
  (entry = "_score_pixels" /\ lower(method) \in SevenNames /\ WellShaped)
    => pc /= "error"

\* C2: every value of the array _score_pixels returns lies in [0, 1].
C2_ScoresInUnitInterval ==
  (InIcell /\ ~IsNone(scores))
    => \A i \in DOMAIN Val(scores) : Val(scores)[i] \in 0..Scale

\* C3: when score_and_mask_pixels is called without a threshold, the cutoff
\* it applies is the first value of the 3-class Multi-Otsu thresholds of the
\* scores (whenever those exist), whichever method was used.
C3_CutoffIsFirstMultiOtsu ==
  (entry = "score_and_mask_pixels" /\ IsNone(threshold) /\ ~IsNone(cutoff)
     /\ ~IsNone(threshold_multiotsu(Val(scores))))
    => Val(cutoff) = Val(threshold_multiotsu(Val(scores)))[1]

\* C4: for the methods gauss, moran, VI+gauss and VI+BP no sub-step of
\* _score_pixels receives bins.
C4_BinsOnlyReachEM ==
  (InIcell /\ lower(method) \in {s_gauss, s_moran, s_vi_gauss, s_vi_bp})
    => \A i \in DOMAIN calls : ~calls[i].bins

\* C5: when a certain layer is given, every pixel that is true in the
\* boolean-cast certain layer is true in the stored mask layer.
C5_CertainPixelsInMask ==
  (entry = "score_and_mask_pixels" /\ ~IsNone(layers.mask) /\ ~IsNone(layers.certain))
    => \A i \in Pix : astype_bool(Val(layers.certain))[i] => Val(layers.mask)[i]

\* a certain pixel whose score is below the cutoff is true in the stored mask
C5_Witness ==
  /\ entry = "score_and_mask_pixels" /\ pc = "done"
  /\ ~IsNone(layers.mask) /\ ~IsNone(layers.certain)
  /\ \E i \in Pix : /\ astype_bool(Val(layers.certain))[i]
                    /\ ~AtLeast(Val(scores), Val(cutoff))[i]
                    /\ Val(layers.mask)[i]

\* C6: a method whose lower-cased name is not one of the seven names ends in
\* PreprocessingError before any convolution or estimator runs, and
\* score_and_mask_pixels then writes neither the scores nor the mask layer.
C6_UnknownMethodRejected ==
  (InIcell /\ lower(method) \notin SevenNames)
    => /\ pc \in {"sp_validate", "sm_select", "error"}
       /\ pc = "error" => error = "PreprocessingError"
       /\ \A i \in DOMAIN calls : calls[i].fn \notin ScoringSteps
       /\ IsNone(scores) /\ IsNone(layers.scores) /\ IsNone(layers.mask)

\* score_and_mask_pixels with an unknown method has raised PreprocessingError
C6_Witness ==
  /\ entry = "score_and_mask_pixels" /\ lower(method) \notin SevenNames
  /\ pc = "error" /\ error = "PreprocessingError"
  /\ IsNone(layers.scores) /\ IsNone(layers.mask)

\* the phase of score_and_mask_pixels a sub-step belongs to
Phase(fn) ==
  CASE fn = "select_layer_data" -> 1
    [] fn \in ScoringSteps -> 2
    [] fn = "set_layer_data:scores" -> 3
    [] fn \in {"threshold_otsu", "threshold_multiotsu"} -> 4
    [] fn = "apply_threshold" -> 5
    [] fn = "set_layer_data:mask" -> 6
    [] OTHER -> 0

HasCalled(fn) == \E i \in DOMAIN calls : calls[i].fn = fn

\* C7: within one call of score_and_mask_pixels the steps occur in the order
\* layer selection, scoring, scores-layer write, threshold determination,
\* thresholding, mask-layer write; the scores layer is written before any
\* threshold is computed and holds the pre-threshold scores; the mask layer
\* is written last and only after thresholding succeeded.
C7_StepOrder ==
  entry = "score_and_mask_pixels" =>
    /\ \A i, j \in DOMAIN calls : i < j => Phase(calls[i].fn) <= Phase(calls[j].fn)
    /\ \A i, j \in DOMAIN calls :
          (i < j /\ Phase(calls[i].fn) /= 2) => Phase(calls[i].fn) < Phase(calls[j].fn)
    /\ ~IsNone(layers.scores) <=> HasCalled("set_layer_data:scores")
    /\ ~IsNone(layers.scores) => layers.scores = scores
    /\ (~IsNone(cutoff) \/ HasCalled("threshold_otsu") \/ HasCalled("threshold_multiotsu"))
          => ~IsNone(layers.scores)
    /\ ~IsNone(mask) => ~IsNone(cutoff)
    /\ ~IsNone(layers.mask) =>
          /\ calls[Len(calls)].fn = "set_layer_data:mask"
          /\ HasCalled("apply_threshold")
          /\ ~IsNone(cutoff) /\ error = "" /\ pc = "done"
    /\ pc = "error" => IsNone(layers.mask)

\* a call that computed its threshold and stored both layers
C7_Witness ==
  /\ entry = "score_and_mask_pixels" /\ pc = "done"
  /\ HasCalled("threshold_multiotsu")
  /\ ~IsNone(layers.scores) /\ ~IsNone(layers.mask)

\* the steps of spagcn_pyg, in order
ClusterSteps ==
  <<"calculate_adj_matrix", "search_l", "search_res", "SpaGCN", "seed",
    "train", "predict", "assign">>

\* C8: within one call of spagcn_pyg the steps occur in the order adjacency
\* matrix, search_l, search_res, seeding of random/torch/numpy with the same
\* seed, training, prediction, label assignment; no label is in adata.obs
\* before training has finished; the three seeds are set after the
\* resolution search and before training.
C8_ClusterOrder ==
  entry = "spagcn_pyg" =>
    /\ \A i \in DOMAIN calls : \A k \in DOMAIN ClusterSteps :
          (i > 1 /\ calls[i].fn = ClusterSteps[k]) =>
             (k > 1 => calls[i - 1].fn = ClusterSteps[k - 1])
    /\ \A i \in DOMAIN calls :
          calls[i].fn = ClusterSteps[1] =>
             (i = 2 /\ calls[1].fn \in {"coords:obs", "coords:obsm"})
    /\ (~IsNone(obs.spagcn_pred) \/ ~IsNone(obs.spagcn_pred_refined))
          => (clf = "trained" /\ HasCalled("train") /\ HasCalled("predict"))
    /\ pc = "sg_train" =>
          /\ HasCalled("search_res") /\ ~IsNone(resolution) /\ clf /= "trained"
          /\ rng.random = Seeded(sg.seed)
          /\ rng.torch = Seeded(sg.seed)
          /\ rng.numpy = Seeded(sg.seed)
    /\ clf = "trained" => HasCalled("seed")
    /\ HasCalled("seed") => HasCalled("search_res")

\* labels were assigned after a training run that started from fresh seeds
C8_Witness ==
  /\ entry = "spagcn_pyg" /\ pc = "done"
  /\ clf = "trained" /\ ~IsNone(obs.spagcn_pred) /\ ~IsNone(obs.spagcn_pred_refined)
  /\ sg.seed = MaxSeed

====
